---- MODULE Spec2Model ----
(***************************************************************************)
(* A model of MCBBall: the Player statistical model (lib/player.py) and    *)
(* the period simulator MCBBall.generate_stat_totals (lib/mcbball.py)      *)
(* with its two data providers (lib/get_data).                             *)
(*                                                                         *)
(* Encodings.                                                              *)
(*   - A Python dict is a sequence of <<key, value>> pairs in insertion    *)
(*     order, with distinct keys.                                          *)
(*   - An attribute that may be None is a sequence of length 0 (None) or   *)
(*     1 (the value).                                                      *)
(*   - A DataFrame is [columns |-> sequence of names, rows |-> sequence of *)
(*     rows], a row being the sequence of its values in column order.      *)
(*   - A mean is the rational [num |-> sum, den |-> count]; den = 0 is     *)
(*     NaN (the mean of no rows is 0/0).  A standard deviation s is        *)
(*     represented by the rational s^2, again with den = 0 for NaN.        *)
(*   - A generated value is an integer, or NaN.                            *)
(***************************************************************************)
EXTENDS Integers, Sequences, FiniteSets, TLC

\* ------------------------------------------------------------------ bounds
MaxRows == 2
MaxGames == 2
MaxSchedule == 1
MaxRuns == 2
MaxRoster == 2

\* ------------------------------------------------------- value encodings
NaN == 0 - 1000
None == <<>>
Some(x) == <<x>>
R(n) == [num |-> n, den |-> 1]
NaNRat == [num |-> 0, den |-> 0]
IsNaNRat(q) == q.den = 0

\* bool -> int, Python's ~ on an int, and the truth value of an int
BoolInt(b) == IF b THEN 1 ELSE 0
Invert(n) == 0 - n - 1
TruthyInt(n) == n # 0

Range(s) == {s[i] : i \in 1..Len(s)}

RECURSIVE SumSeq(_)
SumSeq(s) == IF s = <<>> THEN 0 ELSE Head(s) + SumSeq(Tail(s))

\* ------------------------------------------------------------------ dicts
Keys(d) == [i \in 1..Len(d) |-> d[i][1]]
KeySet(d) == {d[i][1] : i \in 1..Len(d)}
Lookup(d, k) == (CHOOSE i \in 1..Len(d) : d[i][1] = k)
Get(d, k) == d[Lookup(d, k)][2]
\* the truth value of an attribute holding None or a dict
TruthyDict(o) == o # None /\ Len(o[1]) > 0

\* ------------------------------------------------------------- DataFrames
ColIndex(df, c) == CHOOSE j \in 1..Len(df.columns) : df.columns[j] = c
Column(df, c) == [i \in 1..Len(df.rows) |-> df.rows[i][ColIndex(df, c)]]
\* df[stat_list]: the columns of stat_list, in the order of stat_list
Project(df, stat_list) ==
    [columns |-> stat_list,
     rows |-> [i \in 1..Len(df.rows) |->
                  [j \in 1..Len(stat_list) |-> df.rows[i][ColIndex(df, stat_list[j])]]]]
\* a row as the dict to_dict('records') makes of it
RowDict(columns, row) == [j \in 1..Len(columns) |-> <<columns[j], row[j]>>]

\* (stats != 0).any(axis=1)
AnyNonZero(row) == \E j \in 1..Len(row) : row[j] # 0
\* stats.loc[mask]: the rows of the mask, in their order
RECURSIVE KeepNonZero(_)
KeepNonZero(s) ==
    IF s = <<>> THEN <<>>
    ELSE (IF AnyNonZero(Head(s)) THEN <<Head(s)>> ELSE <<>>) \o KeepNonZero(Tail(s))
DropZeroRows(df) == [columns |-> df.columns, rows |-> KeepNonZero(df.rows)]

\* Series.mean(): sum / count, NaN for no rows
ColMean(df, c) == [num |-> SumSeq(Column(df, c)), den |-> Len(df.rows)]
\* Series.std(): the n-1 sample deviation; its square is
\* (n * sum(x^2) - sum(x)^2) / (n * (n - 1)), which is 0/0 = NaN for n < 2
ColStd(df, c) ==
    LET col == Column(df, c)
        n == Len(col)
        sq == [i \in 1..n |-> col[i] * col[i]]
    IN IF n < 2 THEN NaNRat
       ELSE [num |-> n * SumSeq(sq) - SumSeq(col) * SumSeq(col), den |-> n * (n - 1)]

\* ------------------------------------------------------------------ Player
\* Player.__init__: no statistics yet
NewPlayer(team) ==
    [team |-> team, means |-> None, stdevs |-> None, stats |-> None,
     stats_available |-> <<>>]

\* Player._calculate_distribution, over self.stats_available
CalculateDistribution(avail, df) ==
    [means |-> [j \in 1..Len(avail) |-> <<avail[j], ColMean(df, avail[j])>>],
     stdevs |-> [j \in 1..Len(avail) |-> <<avail[j], ColStd(df, avail[j])>>]]

\* a set_distribution that stores before it checks the keys
SetDistributionStoreFirst(p, means, stdevs) ==
    [outcome |-> IF KeySet(means) # KeySet(stdevs) THEN "ValueError: keys" ELSE "ok",
     player |-> [p EXCEPT !.stats = None, !.stats_available = Keys(means),
                          !.means = Some(means), !.stdevs = Some(stdevs)]]
\* Player.set_distribution
SetDistribution(p, means, stdevs) ==
    IF KeySet(means) # KeySet(stdevs)
    THEN [outcome |-> "ValueError: keys", player |-> p]
    ELSE [outcome |-> "ok",
          player |-> [p EXCEPT !.stats = None, !.stats_available = Keys(means),
                               !.means = Some(means), !.stdevs = Some(stdevs)]]

\* a set_stats that keeps the all-zero rows
SetStatsKeepZeros(p, df) ==
    LET d == CalculateDistribution(df.columns, df)
    IN [p EXCEPT !.stats = Some(df), !.stats_available = df.columns,
                 !.means = Some(d.means), !.stdevs = Some(d.stdevs)]
\* a set_stats that adds the rows to a table it already holds
SetStatsAccumulate(p, df) ==
    LET new == DropZeroRows(df)
        stats == IF p.stats # None /\ p.stats[1].columns = new.columns
                 THEN [columns |-> new.columns, rows |-> p.stats[1].rows \o new.rows]
                 ELSE new
        d == CalculateDistribution(stats.columns, stats)
    IN [p EXCEPT !.stats = Some(stats), !.stats_available = stats.columns,
                 !.means = Some(d.means), !.stdevs = Some(d.stdevs)]
\* Player.set_stats
SetStats(p, df) ==
    LET stats == DropZeroRows(df)
        d == CalculateDistribution(stats.columns, stats)
    IN [p EXCEPT !.stats = Some(stats), !.stats_available = stats.columns,
                 !.means = Some(d.means), !.stdevs = Some(d.stdevs)]

\* --------------------------------------------------------------- sampling
\* what random.gauss may return when sigma is not 0: any real; two are kept
GaussDraws == {0 - 1, 3}
\* random.gauss(mu, sigma) = mu + z * sigma
Gauss(mu, sigma) ==
    IF IsNaNRat(mu) \/ IsNaNRat(sigma) THEN {NaN}
    ELSE IF sigma.num = 0 THEN {mu.num \div mu.den}
    ELSE GaussDraws

\* how Player._continuous ends: self.means[cat] on None or on a missing key
ContinuousOutcome(p, stat_list) ==
    IF stat_list = <<>> THEN "ok"
    ELSE IF p.means = None \/ p.stdevs = None THEN "TypeError"
    ELSE IF \E j \in 1..Len(stat_list) :
                stat_list[j] \notin (KeySet(p.means[1]) \cap KeySet(p.stdevs[1]))
         THEN "KeyError"
    ELSE "ok"
\* a _continuous that leaves out the last category
ContinuousDropLast(p, stat_list) ==
    LET n == IF Len(stat_list) = 0 THEN 0 ELSE Len(stat_list) - 1
        vals == [j \in 1..n |-> Gauss(Get(p.means[1], stat_list[j]),
                                      Get(p.stdevs[1], stat_list[j]))]
        all == UNION {vals[j] : j \in 1..n}
    IN {[j \in 1..n |-> <<stat_list[j], f[j]>>] :
            f \in {g \in [1..n -> all] : \A j \in 1..n : g[j] \in vals[j]}}
\* Player._continuous: the statlines it may return
Continuous(p, stat_list) ==
    LET n == Len(stat_list)
        vals == [j \in 1..n |-> Gauss(Get(p.means[1], stat_list[j]),
                                      Get(p.stdevs[1], stat_list[j]))]
        all == UNION {vals[j] : j \in 1..n}
    IN {[j \in 1..n |-> <<stat_list[j], f[j]>>] :
            f \in {g \in [1..n -> all] : \A j \in 1..n : g[j] \in vals[j]}}

\* how Player._bootstrap ends: self.stats[stat_list] on None or on a missing
\* column, DataFrame.sample() on a frame without rows
BootstrapOutcome(p, stat_list) ==
    IF p.stats = None THEN "TypeError"
    ELSE IF \E j \in 1..Len(stat_list) : stat_list[j] \notin Range(p.stats[1].columns)
         THEN "KeyError"
    ELSE IF Len(p.stats[1].rows) = 0 THEN "ValueError: sample"
    ELSE "ok"
\* Player._bootstrap: the statlines it may return
Bootstrap(p, stat_list) ==
    LET sub == Project(p.stats[1], stat_list)
    IN {RowDict(stat_list, sub.rows[i]) : i \in 1..Len(sub.rows)}

\* for i in range(num_games): statlines.append(draw): the lists it may build
Draws(n, exc, S) ==
    IF n = 0 THEN {[outcome |-> "ok", warned |-> FALSE, statlines |-> <<>>]}
    ELSE IF exc # "ok" THEN {[outcome |-> exc, warned |-> FALSE, statlines |-> <<>>]}
    ELSE {[outcome |-> "ok", warned |-> FALSE, statlines |-> s] : s \in [1..n -> S]}

\* a stat_list check that lets every list through
StatListUnchecked(avail, stat_list) == FALSE
\* the condition of line 73: ~ of a bool is -2 or -1
StatListRejected(avail, stat_list) ==
    TruthyInt(Invert(BoolInt(Range(stat_list) \subseteq Range(avail))))

\* Player.generate_statline: the results it may have
GenerateStatline(p, stat_list, num_games, bootstrap) ==
    IF StatListRejected(p.stats_available, stat_list)
    THEN {[outcome |-> "ValueError: stat_list", warned |-> FALSE, statlines |-> <<>>]}
    ELSE IF TruthyDict(p.means) /\ TruthyDict(p.stdevs)
    THEN IF ~bootstrap
         THEN Draws(num_games, ContinuousOutcome(p, stat_list),
                    IF ContinuousOutcome(p, stat_list) = "ok"
                    THEN Continuous(p, stat_list) ELSE {})
         ELSE IF p.stats # None
         THEN Draws(num_games, BootstrapOutcome(p, stat_list),
                    IF BootstrapOutcome(p, stat_list) = "ok"
                    THEN Bootstrap(p, stat_list) ELSE {})
         ELSE {[outcome |-> "ok", warned |-> TRUE, statlines |-> <<>>]}
    ELSE {[outcome |-> "ok", warned |-> TRUE, statlines |-> <<>>]}

\* a generation that uses up the table it sampled from
AfterGenerateDropsTable(p) == [p EXCEPT !.stats = None]
\* the Player after generate_statline or generate_statline_all, however it
\* ends: lines 64-143 assign no attribute of self
AfterGenerate(p) == p

\* Player.generate_statline_all: the results it may have
GenerateStatlineAll(p, num_games, bootstrap) ==
    IF ~bootstrap
    THEN Draws(num_games, ContinuousOutcome(p, p.stats_available),
               IF ContinuousOutcome(p, p.stats_available) = "ok"
               THEN Continuous(p, p.stats_available) ELSE {})
    ELSE Draws(num_games, BootstrapOutcome(p, p.stats_available),
               IF BootstrapOutcome(p, p.stats_available) = "ok"
               THEN Bootstrap(p, p.stats_available) ELSE {})

\* ------------------------------------------------- inputs of the Player calls
Cats == {"pts", "reb"}
\* the key orders of the dicts given to set_distribution
DistKeyLists == {<<>>, <<"pts">>, <<"pts", "reb">>, <<"reb", "pts">>}
MeanVals == {R(1), R(2)}
StdVals == {R(0), R(1)}
DictsOver(V) ==
    UNION {{[j \in 1..Len(ks) |-> <<ks[j], f[j]>>] : f \in [1..Len(ks) -> V]} :
               ks \in DistKeyLists}
\* the stat_list arguments: "ast" is never a category of a model here
ReqLists ==
    {<<>>, <<"pts">>, <<"reb">>, <<"pts", "reb">>, <<"reb", "pts">>,
     <<"ast">>, <<"pts", "ast">>}
\* the historical tables given to set_stats
HistVals == {0, 1}
TableColumns == {<<>>, <<"pts">>, <<"pts", "reb">>}
Tables ==
    UNION {{[columns |-> cs, rows |-> rs] : rs \in [1..n -> [1..Len(cs) -> HistVals]]} :
               <<cs, n>> \in TableColumns \X (0..MaxRows)}

NoArgs ==
    [op |-> "new", stat_list |-> <<>>, num_games |-> 0, bootstrap |-> FALSE,
     means |-> <<>>, stdevs |-> <<>>, table |-> [columns |-> <<>>, rows |-> <<>>]]
NoRet == [outcome |-> "ok", warned |-> FALSE, statlines |-> <<>>]

\* ------------------------------------------------- the balldontlie providers
\* GDPlayerBDL.stats_available
ApiStatsAvailable ==
    {"ast", "blk", "dreb", "fg3_pct", "fg3a", "fg3m", "fg_pct", "fga", "fgm", "ft_pct",
     "fta", "ftm", "min", "oreb", "pf", "pts", "reb", "stl", "turnover"}

\* GDPlayerBDL._format_data: one row per game of the answer, the columns
\* being stat_list in its order (the games are taken in date order)
FormatData(games, stat_list) ==
    [columns |-> stat_list,
     rows |-> [i \in 1..Len(games) |->
                  [j \in 1..Len(stat_list) |-> games[i][stat_list[j]]]]]

\* pd.concat of frames with the same columns
RECURSIVE ConcatRows(_)
ConcatRows(dfs) == IF dfs = <<>> THEN <<>> ELSE Head(dfs).rows \o ConcatRows(Tail(dfs))

\* GDPlayerBDL.get_stats, answers being the games the service has for each id
\* that _get_ids found: a category the service does not have is refused, and
\* pd.concat of no frame raises
GetStats(stat_list, answers) ==
    IF \E j \in 1..Len(stat_list) : stat_list[j] \notin ApiStatsAvailable
    THEN [outcome |-> "ValueError: not an available stat",
          df |-> [columns |-> <<>>, rows |-> <<>>]]
    ELSE IF answers = <<>>
    THEN [outcome |-> "ValueError: No objects to concatenate",
          df |-> [columns |-> <<>>, rows |-> <<>>]]
    ELSE [outcome |-> "ok",
          df |-> [columns |-> stat_list,
                  rows |-> ConcatRows([k \in 1..Len(answers) |->
                                          FormatData(answers[k], stat_list)])]]

\* ------------------------------------------------------- pandas, as used
\* pd.DataFrame(list of dicts): the columns are the keys in the order they
\* are first seen, a key a dict lacks is NaN
RECURSIVE AddColumns(_, _)
AddColumns(cols, lines) ==
    IF lines = <<>> THEN cols
    ELSE AddColumns(cols \o SelectSeq(Keys(Head(lines)), LAMBDA k : k \notin Range(cols)),
                    Tail(lines))
RecordColumns(lines) == AddColumns(<<>>, lines)
\* a frame whose columns come in the reverse order
DfFromRecordsReversed(lines) ==
    LET fwd == RecordColumns(lines)
        cols == [j \in 1..Len(fwd) |-> fwd[Len(fwd) + 1 - j]]
    IN [columns |-> cols,
        rows |-> [i \in 1..Len(lines) |->
                     [j \in 1..Len(cols) |->
                         IF cols[j] \in KeySet(lines[i]) THEN Get(lines[i], cols[j])
                         ELSE NaN]]]
DfFromRecords(lines) ==
    LET cols == RecordColumns(lines)
    IN [columns |-> cols,
        rows |-> [i \in 1..Len(lines) |->
                     [j \in 1..Len(cols) |->
                         IF cols[j] \in KeySet(lines[i]) THEN Get(lines[i], cols[j])
                         ELSE NaN]]]
\* a games column that is 1 in one row only
SetGamesFirstRowOnly(df) ==
    [columns |-> Append(df.columns, "games"),
     rows |-> [i \in 1..Len(df.rows) |-> Append(df.rows[i], IF i = 1 THEN 1 ELSE 0)]]
\* df['games'] = 1
SetGames(df) ==
    [columns |-> Append(df.columns, "games"),
     rows |-> [i \in 1..Len(df.rows) |-> Append(df.rows[i], 1)]]
\* the sum of a column, NaN skipped (skipna), 0 for no value
RECURSIVE SumSkipNaN(_)
SumSkipNaN(s) ==
    IF s = <<>> THEN 0
    ELSE (IF Head(s) = NaN THEN 0 ELSE Head(s)) + SumSkipNaN(Tail(s))
\* df.sum().tolist(): the column sums in column order
DfSumList(df) ==
    [j \in 1..Len(df.columns) |-> SumSkipNaN([i \in 1..Len(df.rows) |-> df.rows[i][j]])]
\* pd.DataFrame(runs, columns=columns): the rows are labelled by position, and
\* a row the columns do not fit raises
FrameOfLists(lists, columns) ==
    IF \E i \in 1..Len(lists) : Len(lists[i]) # Len(columns)
    THEN [outcome |-> "ValueError: columns passed", df |-> None]
    ELSE [outcome |-> "ok", df |-> Some([columns |-> columns, rows |-> lists])]

\* ------------------------------------------------------------ the simulator
\* line 38: the team of every player, one entry per player
TeamsPerPlayer(roster) == {<<i, roster[i].team>> : i \in 1..Len(roster)}
\* line 38-39: the distinct teams, tagged with the first player of each
DistinctTeams(roster) ==
    {<<i, roster[i].team>> : i \in {k \in 1..Len(roster) :
                                       \A m \in 1..(k - 1) : roster[m].team # roster[k].team}}
\* list(set(teams)) comes in an order the hashing decides: every order
Orders(S) ==
    {q \in [1..Cardinality(S) -> S] : \A a, b \in 1..Cardinality(S) : a # b => q[a] # q[b]}

\* lines 49-50 for the players 1..k: what statlines may hold after them, with
\* the number of lines each player was asked for and gave (a raise ends the pass)
PassLines(roster, num_games, bootstrap) ==
    LET G == [k \in 1..Len(roster) |->
                 GenerateStatlineAll(roster[k], Get(num_games, roster[k].team), bootstrap)]
        P[k \in 0..Len(roster)] ==
            IF k = 0
            THEN {[outcome |-> "ok", statlines |-> <<>>, asked |-> <<>>, gave |-> <<>>]}
            ELSE UNION {IF acc.outcome # "ok" THEN {acc}
                        ELSE {[outcome |-> r.outcome,
                               statlines |-> acc.statlines \o r.statlines,
                               asked |-> Append(acc.asked, Get(num_games, roster[k].team)),
                               gave |-> Append(acc.gave, Len(r.statlines))] :
                                  r \in G[k]} :
                           acc \in P[k - 1]}
    IN P[Len(roster)]
\* lines 52-56: the total row of the statlines of a pass
PassTotal(statlines) == DfSumList(SetGames(DfFromRecords(statlines)))

\* ------------------------------------------ inputs of generate_stat_totals
Teams == {"TOR", "BOS"}
SimStatLists == {<<>>, <<"pts">>, <<"reb", "pts">>}
Game(pts, reb) == [pts |-> pts, reb |-> reb]
\* what the stats service may hold for a player id: no game, one game the
\* player sat out, one game, and three games of which one sat out
ApiGames ==
    {<<>>, <<Game(0, 0)>>, <<Game(1, 2)>>, <<Game(1, 2), Game(0, 0), Game(3, 2)>>}
\* what _get_ids may find: no id, or one id with its games
ApiAnswers == {<<>>} \cup {<<g>> : g \in ApiGames}

NoEvent == [kind |-> "none", player |-> 0, team |-> "", n |-> 0]

\* ------------------------------------------------------------ YahooFantasy
\* Times are whole ticks of time.time(); an access token is the number of the
\* token response that issued it; a name is the sequence of its characters.

\* dict[k] = v
Put(d, k, v) ==
    IF k \in KeySet(d) THEN [d EXCEPT ![Lookup(d, k)] = <<k, v>>]
    ELSE Append(d, <<k, v>>)

\* \w of the regular expression, and str.lower, on the characters used
IsWord(ch) == ch \in {"a", "b", "c", "A", "B"}
Lower(ch) == CASE ch = "A" -> "a" [] ch = "B" -> "b" [] OTHER -> ch
RECURSIVE StripNonWord(_)
StripNonWord(text) ==
    IF text = <<>> THEN <<>>
    ELSE (IF IsWord(Head(text)) THEN <<Head(text)>> ELSE <<>>)
         \o StripNonWord(Tail(text))
\* YahooFantasy._process_str
ProcessStr(text) ==
    LET w == StripNonWord(text) IN [i \in 1..Len(w) |-> Lower(w[i])]

\* Player.__init__: the identity attributes it keeps
PlayerIdentity(first_name, last_name, team, status, player_id) ==
    [first_name |-> first_name, last_name |-> last_name, team |-> team,
     status |-> None, player_id |-> None]

\* YahooFantasy.__init__
NewClient ==
    [auth_code |-> None, access_token |-> None, refresh_token |-> None,
     authorized |-> FALSE, authorization_time |-> None,
     expiration_time |-> None, headers |-> None,
     teams |-> None, teams_lookup |-> None]

\* a request sent: its kind ("token", "refresh", "data"), _authorized and
\* _expiration_time of the client and the time when it is sent, the bearer
\* token of its headers, and the access token of the response
Request(kind, c, t, bearer, issued) ==
    [kind |-> kind, authorized |-> c.authorized, expires |-> c.expiration_time,
     time |-> t, bearer |-> bearer, issued |-> issued]

\* an expiry test that never fires
CheckAuthorizationNoExpiry(c, t) == [c |-> c, ok |-> c.authorized]
\* YahooFantasy._check_authorization at time t
CheckAuthorization(c, t) ==
    IF c.authorized
    THEN IF t >= c.expiration_time[1]
         THEN [c |-> [c EXCEPT !.authorized = FALSE,
                               !.authorization_time = None,
                               !.expiration_time = None],
               ok |-> FALSE]
         ELSE [c |-> c, ok |-> TRUE]
    ELSE [c |-> c, ok |-> FALSE]

\* YahooFantasy._get_access_token at time t; ans is None for a response
\* without 'access_token', else the 'expires_in' of the response
GetAccessToken(c, t, ans, tok) ==
    LET c1 == [c EXCEPT !.authorization_time = Some(t)]
    IN IF ans = None
       THEN [c |-> c1, outcome |-> "KeyError",
             sent |-> <<Request("token", c1, t, None, None)>>]
       ELSE [c |-> [c1 EXCEPT !.access_token = Some(tok),
                              !.refresh_token = Some(tok),
                              !.expiration_time = Some(t + ans[1])],
             outcome |-> "ok",
             sent |-> <<Request("token", c1, t, None, Some(tok))>>]

\* YahooFantasy.authorize
Authorize(c, auth_code, t, ans, tok) ==
    LET g == GetAccessToken([c EXCEPT !.auth_code = Some(auth_code)], t, ans, tok)
    IN IF g.outcome = "ok"
       THEN [g EXCEPT !.c = [g.c EXCEPT !.authorized = TRUE]]
       ELSE g

\* YahooFantasy._refresh_access_token at time t
RefreshAccessToken(c, t, ans, tok) ==
    LET chk == CheckAuthorization(c, t)
        c1 == [chk.c EXCEPT !.authorization_time = Some(t)]
    IN IF ~chk.ok
       THEN [c |-> chk.c, outcome |-> "RuntimeError: No token to refresh",
             sent |-> <<>>]
       ELSE IF ans = None
       THEN [c |-> c1, outcome |-> "KeyError",
             sent |-> <<Request("refresh", c1, t, None, None)>>]
       ELSE [c |-> [c1 EXCEPT !.access_token = Some(tok),
                              !.expiration_time = Some(t + ans[1]),
                              !.headers = Some(tok)],
             outcome |-> "ok",
             sent |-> <<Request("refresh", c1, t, None, Some(tok))>>]

\* lines 149-156: the dicts name -> id and processed name -> id
RECURSIVE TeamsOf(_, _)
TeamsOf(standings, acc) ==
    IF standings = <<>> THEN acc
    ELSE TeamsOf(Tail(standings),
                 Put(acc, Head(standings).name, Head(standings).team_id))
RECURSIVE TeamsLookupOf(_, _)
TeamsLookupOf(standings, acc) ==
    IF standings = <<>> THEN acc
    ELSE TeamsLookupOf(Tail(standings),
                       Put(acc, ProcessStr(Head(standings).name),
                           Head(standings).team_id))

\* YahooFantasy.get_teams_in_league at time t; standings is the team list
\* of the response
GetTeamsInLeague(c, t, ans, tok, standings) ==
    LET r == RefreshAccessToken(c, t, ans, tok)
    IN IF r.outcome # "ok"
       THEN [c |-> r.c, outcome |-> r.outcome, sent |-> r.sent, result |-> None]
       ELSE IF ~TruthyDict(r.c.teams)
       THEN LET c2 == [r.c EXCEPT !.teams = Some(TeamsOf(standings, <<>>)),
                                  !.teams_lookup =
                                      Some(TeamsLookupOf(standings, <<>>))]
            IN [c |-> c2, outcome |-> "ok",
                sent |-> Append(r.sent,
                                Request("data", r.c, t, r.c.headers, None)),
                result |-> c2.teams]
       ELSE [c |-> r.c, outcome |-> "ok", sent |-> r.sent,
             result |-> r.c.teams]

\* lines 185-192: a MatchUp for each week of the response (the dates left out)
MatchUps(weeks) ==
    [i \in 1..Len(weeks) |->
        [week |-> weeks[i].week, opponent |-> weeks[i].teams[2]]]

\* YahooFantasy.get_matchups: its refresh at time t, and the one of
\* get_teams_in_league, when it is called, at time t2
GetMatchups(c, team, t, t2, ans, ans2, tok, tok2, standings, weeks) ==
    LET r == RefreshAccessToken(c, t, ans, tok)
    IN IF r.outcome # "ok"
       THEN [c |-> r.c, outcome |-> r.outcome, sent |-> r.sent, result |-> None]
       ELSE
       LET g == IF ~TruthyDict(r.c.teams)
                THEN GetTeamsInLeague(r.c, t2, ans2, tok2, standings)
                ELSE [c |-> r.c, outcome |-> "ok", sent |-> <<>>]
           out == r.sent \o g.sent
       IN IF g.outcome # "ok"
          THEN [c |-> g.c, outcome |-> g.outcome, sent |-> out, result |-> None]
          ELSE IF ProcessStr(team) \notin KeySet(g.c.teams_lookup[1])
          THEN [c |-> g.c, outcome |-> "KeyError", sent |-> out, result |-> None]
          ELSE [c |-> g.c, outcome |-> "ok",
                sent |-> Append(out, Request("data", g.c, t2, g.c.headers, None)),
                result |-> Some(MatchUps(weeks))]

\* 'status' of a player of the response, 'NP' when it has none
StatusOf(p) == IF p.status = None THEN "NP" ELSE p.status[1]
\* lines 217-230: the Player objects of the roster
RECURSIVE RosterOf(_, _)
RosterOf(players, exclude_unavailable) ==
    IF players = <<>> THEN <<>>
    ELSE LET p == Head(players)
             status == StatusOf(p)
         IN (IF ~exclude_unavailable \/ (status # "INJ" /\ status # "O")
             THEN <<PlayerIdentity(p.first, p.last, p.editorial_team_abbr,
                                   Some(status), None)>>
             ELSE <<>>)
            \o RosterOf(Tail(players), exclude_unavailable)

\* YahooFantasy.get_team_roster at time t
GetTeamRoster(c, team, exclude_unavailable, t, ans, tok, standings, players) ==
    LET g == IF ~TruthyDict(c.teams)
             THEN GetTeamsInLeague(c, t, ans, tok, standings)
             ELSE RefreshAccessToken(c, t, ans, tok)
    IN IF g.outcome # "ok"
       THEN [c |-> g.c, outcome |-> g.outcome, sent |-> g.sent, result |-> None]
       ELSE IF ProcessStr(team) \notin KeySet(g.c.teams_lookup[1])
       THEN [c |-> g.c, outcome |-> "KeyError", sent |-> g.sent, result |-> None]
       ELSE [c |-> g.c, outcome |-> "ok",
             sent |-> Append(g.sent, Request("data", g.c, t, g.c.headers, None)),
             result |-> Some(RosterOf(players, exclude_unavailable))]

\* ----------------------------------------------- inputs of the YahooFantasy
MaxClock == 2
MaxIssued == 3
MaxPlayers == 1
AuthCodes == {"code"}
\* a token response: without 'access_token', or with its 'expires_in'
TokenAnswers == {None, Some(1), Some(2)}
LeagueTeam(name, team_id) == [name |-> name, team_id |-> team_id]
\* the standings a league may answer: no team, or two teams
StandingsAnswers ==
    {<<>>, <<LeagueTeam(<<"A", "!">>, 1), LeagueTeam(<<"b">>, 2)>>}
\* a name of the league written differently, and a name it does not have
TeamArgs == {<<"a", " ">>, <<"c">>}
WeeksAnswers ==
    {<<>>, <<[week |-> 1, teams |-> <<<<"A", "!">>, <<"b">>>>]>>}
LeagueStatuses == {None, Some("INJ"), Some("O"), Some("GTD")}
LeaguePlayer(i, status) ==
    [first |-> "P", last |-> i, editorial_team_abbr |-> "TOR", status |-> status]
RosterAnswers ==
    UNION {{[i \in 1..n |-> LeaguePlayer(i, s[i])] : s \in [1..n -> LeagueStatuses]}
           : n \in 0..MaxPlayers}
NoYCall ==
    [op |-> "none", team |-> <<>>, exclude_unavailable |-> FALSE,
     before |-> NewClient, time |-> 0, outcome |-> "ok", sent |-> <<>>,
     result |-> None, players |-> <<>>]

\* ------------------------------------------------------------------- state
VARIABLES
    player,   \* the Player object the calls are made on
    call,     \* the last call made on it and its arguments
    ret,      \* how that call ended and what it returned
    origin,   \* the last set_distribution / set_stats that succeeded
    pc,       \* where generate_stat_totals is
    args,     \* its arguments stat_list, num_runs, bootstrap
    roster,   \* its roster: the Player objects
    idx,      \* the index of the loop it is in
    teams,    \* line 39: the distinct teams
    num_games, \* line 42: the dict team -> number of games
    runs,     \* line 45: the total rows of the passes made
    totals,   \* line 59: the frame returned, and how the call ended
    log,      \* the provider calls and passes made, in order
    passes,   \* for each pass made: the lines asked of and given by each player,
              \* and the sum of each category over the lines, taken by name
    yf,       \* the YahooFantasy client
    now,      \* what time.time() returns
    issued,   \* the number of access tokens the login service has issued
    ycall     \* the last call made on the client: its arguments, the client
              \* and the time before it, how it ended, the requests it
              \* sent, what it returned, and the roster the league answered

pvars == <<player, call, ret, origin>>
svars == <<pc, args, roster, idx, teams, num_games, runs, totals, log, passes>>
yvars == <<yf, now, issued, ycall>>
vars == <<pvars, svars, yvars>>

PlayerInit ==
    /\ player = NewPlayer("TOR")
    /\ call = NoArgs
    /\ ret = NoRet
    /\ origin = NoArgs

CallSetDistribution ==
    \E means \in DictsOver(MeanVals), stdevs \in DictsOver(StdVals) :
        LET r == SetDistribution(player, means, stdevs)
            c == [NoArgs EXCEPT !.op = "set_distribution", !.means = means,
                                !.stdevs = stdevs]
        IN /\ player' = r.player
           /\ call' = c
           /\ ret' = [NoRet EXCEPT !.outcome = r.outcome]
           /\ origin' = IF r.outcome = "ok" THEN c ELSE origin

CallSetStats ==
    \E table \in Tables :
        LET c == [NoArgs EXCEPT !.op = "set_stats", !.table = table]
        IN /\ player' = SetStats(player, table)
           /\ call' = c
           /\ ret' = NoRet
           /\ origin' = c

CallGenerateStatline ==
    \E stat_list \in ReqLists, n \in 0..MaxGames, bootstrap \in BOOLEAN :
        \E r \in GenerateStatline(player, stat_list, n, bootstrap) :
            /\ call' = [NoArgs EXCEPT !.op = "generate_statline", !.stat_list = stat_list,
                                      !.num_games = n, !.bootstrap = bootstrap]
            /\ ret' = r
            /\ player' = AfterGenerate(player)
            /\ UNCHANGED origin

CallGenerateStatlineAll ==
    \E n \in 0..MaxGames, bootstrap \in BOOLEAN :
        \E r \in GenerateStatlineAll(player, n, bootstrap) :
            /\ call' = [NoArgs EXCEPT !.op = "generate_statline_all",
                                      !.num_games = n, !.bootstrap = bootstrap]
            /\ ret' = r
            /\ player' = AfterGenerate(player)
            /\ UNCHANGED origin

PlayerNext ==
    \/ CallSetDistribution
    \/ CallSetStats
    \/ CallGenerateStatline
    \/ CallGenerateStatlineAll

SimInit ==
    /\ pc = "idle"
    /\ args = [stat_list |-> <<>>, num_runs |-> 0, bootstrap |-> FALSE]
    /\ roster = <<>>
    /\ idx = 0
    /\ teams = <<>>
    /\ num_games = <<>>
    /\ runs = <<>>
    /\ totals = [outcome |-> "ok", df |-> None]
    /\ log = <<>>
    /\ passes = <<>>

YahooInit ==
    /\ yf = NewClient
    /\ now = 0
    /\ issued = 0
    /\ ycall = NoYCall

Init == PlayerInit /\ SimInit /\ YahooInit

PlayerSpec == Init /\ [][PlayerNext /\ UNCHANGED <<svars, yvars>>]_vars

\* the sum of category c over the lines that have a number under the key c
RECURSIVE SumByName(_, _)
SumByName(lines, c) ==
    IF lines = <<>> THEN 0
    ELSE (IF c \in KeySet(Head(lines)) /\ Get(Head(lines), c) # NaN
          THEN Get(Head(lines), c) ELSE 0) + SumByName(Tail(lines), c)

\* generate_stat_totals is called (line 18)
SimCall ==
    /\ pc = "idle"
    /\ \E k \in 0..MaxRoster, sl \in SimStatLists, r \in 0..MaxRuns, b \in BOOLEAN :
         \E ts \in [1..k -> Teams] :
            /\ roster' = [i \in 1..k |-> NewPlayer(ts[i])]
            /\ args' = [stat_list |-> sl, num_runs |-> r, bootstrap |-> b]
            /\ pc' = IF k = 0 THEN "teams" ELSE "initiate"
    /\ idx' = 1
    /\ UNCHANGED <<teams, num_games, runs, totals, log, passes>>

\* _initiate_player_stats, one player (lines 66-71)
InitiatePlayerStats ==
    /\ pc = "initiate"
    /\ \E answers \in ApiAnswers :
         LET g == GetStats(args.stat_list, answers)
         IN IF g.outcome # "ok"
            THEN /\ pc' = "raised"
                 /\ totals' = [outcome |-> g.outcome, df |-> None]
                 /\ UNCHANGED <<roster, idx>>
            ELSE /\ roster' = [roster EXCEPT ![idx] = SetStats(@, g.df)]
                 /\ idx' = idx + 1
                 /\ pc' = IF idx = Len(roster) THEN "teams" ELSE "initiate"
                 /\ UNCHANGED totals
    /\ log' = Append(log, [NoEvent EXCEPT !.kind = "stats", !.player = idx])
    /\ UNCHANGED <<args, teams, num_games, runs, passes>>

\* lines 38-39
CollectTeams ==
    /\ pc = "teams"
    /\ \E q \in Orders(DistinctTeams(roster)) :
         /\ teams' = [a \in 1..Len(q) |-> q[a][2]]
         /\ pc' = IF Len(q) = 0 THEN "passes" ELSE "count"
    /\ idx' = 1
    /\ UNCHANGED <<args, roster, num_games, runs, totals, log, passes>>

\* _count_games, one team (lines 78-79): the schedule service answers n
CountGames ==
    /\ pc = "count"
    /\ \E n \in 0..MaxSchedule :
         /\ num_games' = Append(num_games, <<teams[idx], n>>)
         /\ log' = Append(log, [NoEvent EXCEPT !.kind = "sched", !.team = teams[idx],
                                               !.n = n])
    /\ idx' = idx + 1
    /\ pc' = IF idx = Len(teams) THEN "passes" ELSE "count"
    /\ UNCHANGED <<args, roster, teams, runs, totals, passes>>

\* one pass of the loop of line 46 (lines 47-56)
RunPass ==
    /\ pc = "passes"
    /\ Len(runs) < args.num_runs
    /\ \E res \in PassLines(roster, num_games, args.bootstrap) :
         /\ passes' = Append(passes,
                [outcome |-> res.outcome, asked |-> res.asked, gave |-> res.gave,
                 sums |-> [c \in Range(args.stat_list) |-> SumByName(res.statlines, c)]])
         /\ IF res.outcome # "ok"
            THEN /\ pc' = "raised"
                 /\ totals' = [outcome |-> res.outcome, df |-> None]
                 /\ UNCHANGED runs
            ELSE /\ runs' = Append(runs, PassTotal(res.statlines))
                 /\ UNCHANGED <<pc, totals>>
    /\ log' = Append(log, [NoEvent EXCEPT !.kind = "pass", !.n = Len(runs) + 1])
    /\ roster' = [k \in 1..Len(roster) |-> AfterGenerate(roster[k])]
    /\ UNCHANGED <<args, idx, teams, num_games>>

\* line 59-61
BuildTotals ==
    /\ pc = "passes"
    /\ Len(runs) = args.num_runs
    /\ totals' = FrameOfLists(runs, Append(args.stat_list, "games"))
    /\ pc' = IF totals'.outcome = "ok" THEN "returned" ELSE "raised"
    /\ UNCHANGED <<args, roster, idx, teams, num_games, runs, log, passes>>

SimNext ==
    \/ SimCall
    \/ InitiatePlayerStats
    \/ CollectTeams
    \/ CountGames
    \/ RunPass
    \/ BuildTotals

SimSpec == Init /\ [][SimNext /\ UNCHANGED <<pvars, yvars>>]_vars

\* ------------------------------------------------ calls on a YahooFantasy
\* the tokens the responses of a call issued
Issued(sent) == Cardinality({i \in 1..Len(sent) : sent[i].issued # None})
\* the call op made at the time now, with the result res of its operator
Called(op, team, exclude_unavailable, players, res) ==
    /\ issued + Issued(res.sent) <= MaxIssued
    /\ yf' = res.c
    /\ issued' = issued + Issued(res.sent)
    /\ ycall' = [op |-> op, team |-> team,
                 exclude_unavailable |-> exclude_unavailable,
                 before |-> yf, time |-> now, outcome |-> res.outcome,
                 sent |-> res.sent, result |-> res.result, players |-> players]

\* time passes between two calls
Tick ==
    /\ now < MaxClock
    /\ now' = now + 1
    /\ UNCHANGED <<yf, issued, ycall>>

\* the answers to a request that is not sent are not drawn
StandingsFor(c) == IF TruthyDict(c.teams) THEN {<<>>} ELSE StandingsAnswers
AnswersIf(sends, S) == IF sends THEN S ELSE {<<>>}

CallAuthorize ==
    /\ \E auth_code \in AuthCodes, ans \in TokenAnswers :
           LET a == Authorize(yf, auth_code, now, ans, issued + 1)
           IN Called("authorize", <<>>, FALSE, <<>>,
                     [c |-> a.c, outcome |-> a.outcome, sent |-> a.sent,
                      result |-> None])
    /\ UNCHANGED now

CallGetTeamsInLeague ==
    /\ \E ans \in TokenAnswers, standings \in StandingsFor(yf) :
           Called("get_teams_in_league", <<>>, FALSE, <<>>,
                  GetTeamsInLeague(yf, now, ans, issued + 1, standings))
    /\ UNCHANGED now

\* the second refresh of get_matchups may read a later time than the first
CallGetMatchups ==
    \E team \in TeamArgs, ans \in TokenAnswers,
       ans2 \in AnswersIf(~TruthyDict(yf.teams), TokenAnswers),
       standings \in StandingsFor(yf),
       t2 \in {now, now + 1} \cap 0..MaxClock :
        \E weeks \in AnswersIf(GetMatchups(yf, team, now, t2, ans, ans2,
                                           issued + 1, issued + 2, standings,
                                           <<>>).outcome = "ok",
                                WeeksAnswers) :
            /\ Called("get_matchups", team, FALSE, <<>>,
                      GetMatchups(yf, team, now, t2, ans, ans2,
                                  issued + 1, issued + 2, standings, weeks))
            /\ now' = t2

CallGetTeamRoster ==
    /\ \E team \in TeamArgs, exclude_unavailable \in BOOLEAN,
          ans \in TokenAnswers, standings \in StandingsFor(yf) :
           \E players \in AnswersIf(GetTeamRoster(yf, team, exclude_unavailable,
                                                  now, ans, issued + 1,
                                                  standings, <<>>).outcome = "ok",
                                    RosterAnswers) :
               Called("get_team_roster", team, exclude_unavailable, players,
                      GetTeamRoster(yf, team, exclude_unavailable, now, ans,
                                    issued + 1, standings, players))
    /\ UNCHANGED now

YahooNext ==
    \/ Tick
    \/ CallAuthorize
    \/ CallGetTeamsInLeague
    \/ CallGetMatchups
    \/ CallGetTeamRoster

YahooSpec == Init /\ [][YahooNext /\ UNCHANGED <<pvars, svars>>]_vars

\* ------------------------------------------------------------- the library
\* calls on the Player while no simulation was begun, or a simulation while
\* no call was made on the Player
Next ==
    \/ pc = "idle" /\ PlayerNext /\ UNCHANGED <<svars, yvars>>
    \/ call = NoArgs /\ SimNext /\ UNCHANGED <<pvars, yvars>>

Spec == Init /\ [][Next]_vars

\* ===================================================== claims on the Player
Subset(stat_list, avail) == Range(stat_list) \subseteq Range(avail)

\* C1: on a model with a distribution (after a set_distribution or set_stats
\* that succeeded), generate_statline with a stat_list inside the available
\* categories and num_games = N, parametric, returns N statlines, each with
\* exactly the requested categories as keys, and does not fail.
C1_StatlinesReturned ==
    (/\ call.op = "generate_statline"
     /\ ~call.bootstrap
     /\ origin.op # "new"
     /\ Subset(call.stat_list, player.stats_available))
    => /\ ret.outcome = "ok"
       /\ Len(ret.statlines) = call.num_games
       /\ \A i \in 1..Len(ret.statlines) :
              KeySet(ret.statlines[i]) = Range(call.stat_list)

\* C2: a generate_statline whose stat_list has a category outside the
\* available ones raises the ValueError of the stat_list check, returns no
\* statline, and leaves the model as it was.
C2_OutsideCategoryRejected ==
    [][(call'.op = "generate_statline"
        /\ ~Subset(call'.stat_list, player.stats_available))
       => (/\ ret'.outcome = "ValueError: stat_list"
           /\ ret'.statlines = <<>>
           /\ player' = player)]_vars
C2_Witness ==
    /\ call.op = "generate_statline"
    /\ call.stat_list = <<"pts", "ast">>
    /\ call.num_games = MaxGames
    /\ player.stats_available = <<"pts", "reb">>
    /\ TruthyDict(player.means)
    /\ ret.outcome = "ValueError: stat_list"

\* C3: a set_distribution whose means and stdevs have different key sets
\* raises the ValueError of the key check and leaves means, stdevs, stats and
\* stats_available as they were.
C3_KeyMismatchRejected ==
    [][(call'.op = "set_distribution" /\ KeySet(call'.means) # KeySet(call'.stdevs))
       => (ret'.outcome = "ValueError: keys" /\ player' = player)]_vars
C3_Witness ==
    /\ call.op = "set_distribution"
    /\ KeySet(call.means) = {"pts", "reb"}
    /\ KeySet(call.stdevs) = {"pts"}
    /\ ret.outcome = "ValueError: keys"
    /\ origin.op = "set_stats"
    /\ player.stats # None
    /\ player.stats_available = <<"pts">>

\* C4: after a set_distribution that succeeded, generate_statline_all with
\* num_games = N, parametric, returns exactly N statlines, each with every
\* category of the key set given to set_distribution and no other.
C4_AllCategoriesNRows ==
    (/\ call.op = "generate_statline_all"
     /\ ~call.bootstrap
     /\ origin.op = "set_distribution")
    => /\ ret.outcome = "ok"
       /\ Len(ret.statlines) = call.num_games
       /\ \A i \in 1..Len(ret.statlines) :
              /\ KeySet(ret.statlines[i]) = KeySet(origin.means)
              /\ Len(ret.statlines[i]) = Cardinality(KeySet(origin.means))
C4_Witness ==
    /\ call.op = "generate_statline_all"
    /\ ~call.bootstrap
    /\ origin.op = "set_distribution"
    /\ KeySet(origin.means) = {"pts", "reb"}
    /\ call.num_games = MaxGames
    /\ Len(ret.statlines) = MaxGames

\* the rows of a table that are not all zero, and a column's sum over them
NonZeroRows(T) == {i \in 1..Len(T.rows) : \E j \in 1..Len(T.columns) : T.rows[i][j] # 0}
RECURSIVE SumAt(_, _, _)
SumAt(I, T, j) ==
    IF I = {} THEN 0
    ELSE LET i == CHOOSE x \in I : TRUE IN T.rows[i][j] + SumAt(I \ {i}, T, j)

\* C5: after set_stats(T) the table kept is T without its all-zero rows, the
\* mean of each category is the sum over the other rows divided by their
\* number, and every statline a bootstrap generate_statline_all returns is one
\* of those rows.
C5_ZeroRowsExcluded ==
    origin.op = "set_stats" =>
        LET T == origin.table
            NZ == NonZeroRows(T)
        IN /\ player.stats # None
           /\ Len(player.stats[1].rows) = Cardinality(NZ)
           /\ \A a \in 1..Len(player.stats[1].rows) :
                  \E i \in NZ : player.stats[1].rows[a] = T.rows[i]
           /\ \A j \in 1..Len(T.columns) :
                  /\ T.columns[j] \in KeySet(player.means[1])
                  /\ Get(player.means[1], T.columns[j]).den = Cardinality(NZ)
                  /\ Get(player.means[1], T.columns[j]).num = SumAt(NZ, T, j)
           /\ (call.op = "generate_statline_all" /\ call.bootstrap)
              => \A a \in 1..Len(ret.statlines) :
                     \E i \in NZ :
                        /\ Len(ret.statlines[a]) = Len(T.columns)
                        /\ \A j \in 1..Len(T.columns) :
                               ret.statlines[a][j] = <<T.columns[j], T.rows[i][j]>>
C5_Witness ==
    /\ origin.op = "set_stats"
    /\ origin.table.columns = <<"pts", "reb">>
    /\ Len(origin.table.rows) = MaxRows
    /\ Cardinality(NonZeroRows(origin.table)) = MaxRows - 1
    /\ call.op = "generate_statline_all"
    /\ call.bootstrap
    /\ ret.outcome = "ok"
    /\ Len(ret.statlines) = MaxGames

\* ================================================== claims on the simulator
Ended == pc \in {"returned", "raised"}
\* the call ended in a provider (spec: such failures reach the caller as they are)
ProviderFailed ==
    totals.outcome \in {"ValueError: not an available stat",
                        "ValueError: No objects to concatenate"}
GamesOfRoster == SumSeq([k \in 1..Len(roster) |-> Get(num_games, roster[k].team)])
\* the value a returned frame has in row r under the column named c
Under(df, r, c) == df.rows[r][CHOOSE j \in 1..Len(df.columns) : df.columns[j] = c]
\* player k's fetched table has categories and, zero rows dropped, no row
NoHistory(k) ==
    /\ roster[k].stats # None
    /\ Len(roster[k].stats[1].columns) > 0
    /\ Len(roster[k].stats[1].rows) = 0

\* C6: a call of generate_stat_totals whose providers answered returns a frame
\* of exactly num_runs rows with the columns stat_list + ['games'], and for the
\* empty roster every value of it is 0.
C6_TotalsOfRRows ==
    (Ended /\ ~ProviderFailed) =>
        /\ pc = "returned"
        /\ totals.df # None
        /\ totals.df[1].columns = Append(args.stat_list, "games")
        /\ Len(totals.df[1].rows) = args.num_runs
        /\ roster = <<>> =>
               \A r \in 1..Len(totals.df[1].rows) :
                   \A j \in 1..Len(totals.df[1].columns) : totals.df[1].rows[r][j] = 0

\* C7: the games value of the total row of every pass is the number of lines
\* summed in the pass, which is the sum of num_games[player.team] over the
\* roster, the same in every pass; a returned frame has it under 'games'.
C7_GamesIsLineCount ==
    /\ \A r \in 1..Len(runs) :
           /\ runs[r][Len(runs[r])] = GamesOfRoster
           /\ runs[r][Len(runs[r])] = SumSeq(passes[r].gave)
    /\ pc = "returned" =>
           \A r \in 1..Len(totals.df[1].rows) :
               Under(totals.df[1], r, "games") = GamesOfRoster
C7_Witness ==
    /\ pc = "returned"
    /\ Len(roster) = MaxRoster
    /\ Len(totals.df[1].rows) = MaxRuns
    /\ GamesOfRoster = MaxRoster * MaxSchedule
    /\ Under(totals.df[1], 1, "games") = MaxRoster * MaxSchedule
    /\ totals.df[1].rows[1] # totals.df[1].rows[2]

Count(kind, team) ==
    Cardinality({i \in 1..Len(log) : log[i].kind = kind /\ log[i].team = team})
RosterTeams == {roster[k].team : k \in 1..Len(roster)}
PassesBegun == pc \in {"passes", "returned"} \/ \E i \in 1..Len(log) : log[i].kind = "pass"

\* C9: the schedule provider is asked at most once for a team, and once the
\* passes begin exactly once for each team of the roster and for no other,
\* every player's stats having been fetched; no provider call follows a pass;
\* every pass asks each player for the count the provider gave for the team.
C9_FetchOncePerTeamBeforePasses ==
    /\ \A t \in Teams : Count("sched", t) <= 1
    /\ PassesBegun =>
           /\ \A t \in Teams : Count("sched", t) = IF t \in RosterTeams THEN 1 ELSE 0
           /\ \A k \in 1..Len(roster) :
                  Cardinality({i \in 1..Len(log) :
                                  log[i].kind = "stats" /\ log[i].player = k}) = 1
    /\ \A i, j \in 1..Len(log) :
           (i < j /\ log[i].kind = "pass") => log[j].kind = "pass"
    /\ \A r \in 1..Len(passes) :
           \A k \in 1..Len(passes[r].asked) :
               \E i \in 1..Len(log) :
                   /\ log[i].kind = "sched"
                   /\ log[i].team = roster[k].team
                   /\ log[i].n = passes[r].asked[k]
C9_Witness ==
    /\ pc = "returned"
    /\ Len(roster) = MaxRoster
    /\ Cardinality(RosterTeams) = 1
    /\ Len(passes) = MaxRuns
    /\ \A k \in 1..Len(roster) : Get(num_games, roster[k].team) = MaxSchedule

\* C10: under either policy a player whose fetched table has no row that is not
\* all zero gives no line in any pass (nothing for the category sums, nothing
\* for games), and no pass is ended by a raise.
C10_NoHistoryGivesNothing ==
    \A r \in 1..Len(passes) :
        /\ passes[r].outcome = "ok"
        /\ \A k \in 1..Len(passes[r].gave) : NoHistory(k) => passes[r].gave[k] = 0

\* ============================================ further claims on the Player
\* C11: generate_statline_all on a model without a distribution, and in
\* bootstrap mode on a model whose distribution comes from set_distribution
\* (no table kept), does not fail and returns the empty list, whatever
\* num_games (the warning the claim adds is left out: with it a call for no
\* game would already differ).
C11_AllFollowsBranchingRules ==
    (/\ call.op = "generate_statline_all"
     /\ \/ origin.op = "new"
        \/ (call.bootstrap /\ origin.op = "set_distribution"))
    => /\ ret.outcome = "ok"
       /\ ret.statlines = <<>>

\* C12: the model is what the last set_distribution or set_stats that
\* succeeded made of a new Player: a table is kept exactly when it was
\* set_stats, stats_available is the key list of that call (the keys of means,
\* the columns of the table), means and stdevs have exactly these keys, and
\* set_distribution stores its dicts as given; nothing of earlier calls is left.
C12_LastInitDecides ==
    /\ player.stats # None <=> origin.op = "set_stats"
    /\ player.means # None <=> origin.op # "new"
    /\ player.stdevs # None <=> origin.op # "new"
    /\ origin.op = "new" => player = NewPlayer(player.team)
    /\ origin.op = "set_distribution" =>
           /\ player.stats_available = Keys(origin.means)
           /\ player.means = Some(origin.means)
           /\ player.stdevs = Some(origin.stdevs)
    /\ origin.op = "set_stats" =>
           /\ player.stats_available = origin.table.columns
           /\ player = SetStats(NewPlayer(player.team), origin.table)
    /\ origin.op # "new" =>
           /\ KeySet(player.means[1]) = Range(player.stats_available)
           /\ KeySet(player.stdevs[1]) = Range(player.stats_available)
C12_Witness ==
    /\ call.op = "set_distribution"
    /\ ret.outcome = "ValueError: keys"
    /\ origin.op = "set_stats"
    /\ origin.table.columns = <<"pts", "reb">>
    /\ Len(origin.table.rows) = MaxRows
    /\ Len(player.stats[1].rows) = MaxRows
    /\ KeySet(call.means) = {"pts"}
    /\ KeySet(call.stdevs) = {"pts", "reb"}

\* C13: generation only reads. A call of generate_statline or of
\* generate_statline_all, however it ends, leaves the Player (means, stdevs,
\* table and available categories) as it was; a pass of generate_stat_totals,
\* however it ends, leaves every Player of the roster, the dict of game
\* counts and the arguments as they were: what PassLines draws the next pass
\* from is what it drew this pass from, whatever the number of passes made.
C13_GenerationOnlyReads ==
    [][/\ call'.op \in {"generate_statline", "generate_statline_all"}
          => player' = player
       /\ (pc = "passes" /\ passes' # passes)
          => /\ roster' = roster
             /\ num_games' = num_games
             /\ args' = args]_vars
C13_Witness ==
    /\ Len(passes) = MaxRuns
    /\ args.bootstrap
    /\ Len(roster) = MaxRoster
    /\ \A k \in 1..Len(roster) : Len(roster[k].stats[1].rows) > 0
    /\ \A i \in 1..Len(passes) :
           /\ passes[i].outcome = "ok"
           /\ \E k \in 1..Len(roster) : passes[i].gave[k] > 0

\* ============================================= claims on the YahooFantasy
DataOps == {"get_teams_in_league", "get_matchups", "get_team_roster"}
NoToken == "RuntimeError: No token to refresh"
\* the client as the last call found it: not authorized, or its token expired
FoundUnauthorized ==
    \/ ~ycall.before.authorized
    \/ ycall.time >= ycall.before.expiration_time[1]
\* the last refresh request before the i-th request of the last call, 0 if none
RefreshBefore(i) ==
    LET S == {j \in 1..(i - 1) : ycall.sent[j].kind = "refresh"}
    IN IF S = {} THEN 0 ELSE CHOOSE j \in S : \A k \in S : k <= j

\* C14: whatever authorize calls, data-access calls and clock advances were
\* made: every refresh request and every data request of a data-access call
\* is sent by an authorized client; a data-access call that finds the client
\* not authorized, or the time at or after the expiration time, raises
\* RuntimeError('No token to refresh') and sends nothing; after that the
\* client is not authorized, and only an authorize call that succeeds makes a
\* client authorized; every data request carries the access token of the
\* response to the last refresh request sent before it in the same call.
C14_NoRequestWhileUnauthorized ==
    /\ [](ycall.op \in DataOps =>
            /\ \A i \in 1..Len(ycall.sent) :
                   /\ ycall.sent[i].kind \in {"refresh", "data"}
                   /\ ycall.sent[i].authorized
                   /\ ycall.sent[i].kind = "data" =>
                          /\ RefreshBefore(i) # 0
                          /\ ycall.sent[i].bearer # None
                          /\ ycall.sent[i].bearer = ycall.sent[RefreshBefore(i)].issued
            /\ FoundUnauthorized =>
                   /\ ycall.outcome = NoToken
                   /\ ycall.sent = <<>>
            /\ ycall.outcome = NoToken =>
                   /\ ~yf.authorized
                   /\ yf.expiration_time = None)
    /\ [][(~yf.authorized /\ yf'.authorized) =>
              (ycall'.op = "authorize" /\ ycall'.outcome = "ok")]_vars
C14_Witness ==
    /\ ycall.op = "get_team_roster"
    /\ ycall.before.authorized
    /\ ycall.before.headers # None
    /\ ycall.time >= ycall.before.expiration_time[1]
    /\ ycall.outcome = NoToken
    /\ ycall.sent = <<>>
    /\ ~yf.authorized

\* the players of the league's answer that are to be returned
RECURSIVE Available(_, _)
Available(players, exclude_unavailable) ==
    IF players = <<>> THEN <<>>
    ELSE (IF exclude_unavailable /\ StatusOf(Head(players)) \in {"INJ", "O"}
          THEN <<>> ELSE <<Head(players)>>)
         \o Available(Tail(players), exclude_unavailable)

\* C15: the Players get_team_roster returns are the players of the league's
\* answer, without those of status 'INJ' or 'O' when exclude_unavailable is
\* set, and each reports the status the league gave for it, 'NP' when it
\* gave none.
C15_RosterKeepsStatus ==
    (ycall.op = "get_team_roster" /\ ycall.outcome = "ok") =>
        LET kept == Available(ycall.players, ycall.exclude_unavailable)
            returned == ycall.result[1]
        IN /\ Len(returned) = Len(kept)
           /\ \A i \in 1..Len(kept) :
                  /\ returned[i].last_name = kept[i].last
                  /\ returned[i].status = Some(StatusOf(kept[i]))
====
